---- MODULE Spec2Model ----
(***************************************************************************)
(* Model of iPyCommender (src/main.py): the CommenderApp menu navigator,   *)
(* its connect() routine and the DeviceSelectionDialog.                    *)
(*                                                                         *)
(* Widgets are modelled by the children lists of the two containers        *)
(* "#menu-box" and "#content-box" and by the text of "#status".  The       *)
(* framework calls are read as their names say: mount appends a child,     *)
(* remove detaches the widget it is called on, remove_children empties the *)
(* container, push_screen opens the dialog without waiting for an answer.  *)
(* One event handler is one step: the event loop runs handlers one at a    *)
(* time.  A handler that raises ends the application where it raised.      *)
(***************************************************************************)
EXTENDS Integers, Sequences, FiniteSets, TLC

\* Number of distinct devices the transport can report.
MaxDevices == 2

Serials == 1..MaxDevices

VARIABLES
    app,        \* "starting" | "running" | "exited" | "crashed"
    device,     \* CommenderApp.device
    status,     \* text of the "#status" Static
    menu,       \* children of "#menu-box", in order
    content,    \* children of "#content-box", in order
    dialog,     \* choices of the open DeviceSelectionDialog, <<>> when none
    bubble,     \* a ListView.Selected of the dialog's list is on its way to the app
    last        \* the event processed last (history)

vars == <<app, device, status, menu, content, dialog, bubble, last>>

-----------------------------------------------------------------------------
\* Values

\* self.device = None
None == [serial |-> 0]

\* create_using_usbmux(serial=...): a handle to the device with that serial
create_using_usbmux(serial) == [serial |-> serial]

\* an attribute value read from the device behind handle h
Attr(h, key) == [key |-> key, serial |-> h.serial]

short_info(h) ==
    [DeviceName     |-> Attr(h, "DeviceName"),
     ProductType    |-> Attr(h, "ProductType"),
     ProductVersion |-> Attr(h, "ProductVersion"),
     BuildVersion   |-> Attr(h, "BuildVersion")]

get_value(h, key) == Attr(h, key)

\* Candidate lists the transport can return: sequences of distinct serials.
CandidateLists ==
    { s \in UNION { [1..n -> Serials] : n \in 0..MaxDevices } :
        \A i, j \in DOMAIN s : i # j => s[i] # s[j] }

TopMenuItems == <<"restore", "jb", "apps", "manage", "utils", "info">>
NoDeviceItems == <<"reconnect">>
AppsItems == <<"apps-list">>

Identifiers ==
    {"restore", "jb", "apps", "manage", "utils", "info", "apps-list", "reconnect"}

Range(s) == { s[i] : i \in DOMAIN s }

\* a ListView holding the given items; uid is the identity of the widget object
ListView(uid, items) == [uid |-> uid, items |-> items]

\* identity of a newly constructed widget: one no mounted widget has
NewUid(children) ==
    CHOOSE u \in 0..Len(children) :
        /\ \A i \in DOMAIN children : children[i].uid # u
        /\ \A v \in 0..Len(children) :
              (\A i \in DOMAIN children : children[i].uid # v) => u <= v

Static(text) == [widget |-> "Static", text |-> text, serial |-> 0]

\* TextArea.code_editor(text=json.dumps(<data of handle h>), read_only=True)
JsonView(data, h) == [widget |-> "TextArea", text |-> data, serial |-> h.serial]

Placeholder == Static("Please select an option.")
Unsupported == Static("Not supported yet :)")

\* children without the child at (1-based) position i
RemoveAt(children, i) ==
    [ j \in 1..(Len(children) - 1) |->
        IF j < i THEN children[j] ELSE children[j + 1] ]

-----------------------------------------------------------------------------
\* connect() that forgets to reset the handle when no device is found
connect_device_noreset(dev, devices) ==
    IF Len(devices) = 1 THEN create_using_usbmux(devices[1]) ELSE dev

\* connect() that stores a handle only through the dialog
connect_device_nostore(dev, devices) ==
    IF Len(devices) = 0 THEN None ELSE dev

\* connect() that drops the handle it holds while the choice is open
connect_device_clear(dev, devices) ==
    IF Len(devices) = 1 THEN create_using_usbmux(devices[1]) ELSE None

\* CommenderApp.connect (lines 51-60): the value of self.device afterwards,
\* given the candidate list the transport returned
connect_device(dev, devices) ==
    IF Len(devices) = 0 THEN None
    ELSE IF Len(devices) = 1 THEN create_using_usbmux(devices[1])
    ELSE dev

\* CommenderApp.connect (lines 57-60): the choices of the dialog it pushes,
\* <<>> when it pushes none
connect_dialog(devices) ==
    IF Len(devices) > 1
    THEN [ i \in 1..Len(devices) |-> create_using_usbmux(devices[i]) ]
    ELSE <<>>

\* action_draw_basic, "Draw top box" (lines 74-81)
draw_status(dev) ==
    IF dev = None
    THEN << [label |-> "Device: None", parts |-> <<>>] >>
    ELSE LET di == short_info(dev)
             ds == get_value(dev, "SerialNumber")
         IN  << [label |-> "Device", parts |-> <<di.DeviceName, di.ProductType>>],
                [label |-> "OS version", parts |-> <<di.ProductVersion, di.BuildVersion>>],
                [label |-> "Serial number", parts |-> <<ds>>] >>

\* a match that also takes "info" for an item with a nested list
has_matched_info(menu_extras) == menu_extras \in {"apps", "info"}

\* action_draw_basic, lines 87-93: the match on menu_extras
has_matched(menu_extras) == menu_extras = "apps"

\* action_draw_basic, lines 88-91: children after the nested list is mounted
mount_extras(children, menu_extras) ==
    IF menu_extras = "apps"
    THEN Append(children, ListView(NewUid(children), AppsItems))
    ELSE children

\* the check without the removal of the second nested list
check_child_menu_nodedup(children, matched) ==
    IF matched
    THEN children
    ELSE IF Len(children) > 1 THEN RemoveAt(children, 2) ELSE children

\* the check with the threshold of the matched branch off by one
check_child_menu_late(children, matched) ==
    IF matched
    THEN IF Len(children) > 3 THEN RemoveAt(children, 3) ELSE children
    ELSE IF Len(children) > 1 THEN RemoveAt(children, 2) ELSE children

\* the check that leaves the nested list when nothing matched
check_child_menu_keep(children, matched) ==
    IF matched
    THEN IF Len(children) > 2 THEN RemoveAt(children, 3) ELSE children
    ELSE children

\* action_draw_basic, lines 96-102: "Check for already added child menu"
check_child_menu(children, matched) ==
    IF matched
    THEN IF Len(children) > 2 THEN RemoveAt(children, 3) ELSE children
    ELSE IF Len(children) > 1 THEN RemoveAt(children, 2) ELSE children

\* a redraw that mounts the six-item list whatever the handle
draw_top_always(children, dev) ==
    << ListView(NewUid(children), TopMenuItems) >>

\* action_draw_basic, lines 104-116: the top-level list, drawn anew
draw_top(children, dev) ==
    IF dev = None
    THEN << ListView(NewUid(children), NoDeviceItems) >>
    ELSE << ListView(NewUid(children), TopMenuItems) >>

\* action_draw_basic, "Draw bottom menu box" (lines 84-116)
draw_menu(children, dev, menu_extras) ==
    IF menu_extras # ""
    THEN check_child_menu(mount_extras(children, menu_extras),
                          has_matched(menu_extras))
    ELSE draw_top(children, dev)

\* the handler without line 144 (menu_extras = "apps")
extras_of_item(item_name) == item_name

\* on_list_view_selected, lines 130 and 144: the argument of action_draw_basic
extras_of(item_name) ==
    IF item_name = "apps-list" THEN "apps" ELSE item_name

\* the match without its default case
selected_content_nodefault(item_name, dev) ==
    CASE item_name = "apps"      -> << Placeholder >>
      [] item_name = "apps-list" -> << JsonView("get_apps", dev) >>
      [] item_name = "info"      -> << JsonView("all_values", dev) >>
      [] OTHER                   -> << >>

\* on_list_view_selected, lines 127-160: the children of the content box after
\* remove_children() and the match on item_name
selected_content(item_name, dev) ==
    CASE item_name = "apps"      -> << Placeholder >>
      [] item_name = "apps-list" -> << JsonView("get_apps", dev) >>
      [] item_name = "info"      -> << JsonView("all_values", dev) >>
      [] item_name = "reconnect" -> << >>
      [] OTHER                   -> << Unsupported >>

\* the items of the lists mounted in the menu box: what can be selected
Selectable(children) == UNION { Range(children[i].items) : i \in DOMAIN children }

\* the navigator state a menu box shows
MenuState(children) ==
    IF children = <<>> THEN "Empty"
    ELSE IF Len(children) = 1 /\ children[1].items = NoDeviceItems THEN "NoDevice"
    ELSE IF Len(children) = 1 /\ children[1].items = TopMenuItems THEN "TopMenu"
    ELSE IF /\ Len(children) = 2
            /\ children[1].items = TopMenuItems
            /\ children[2].items = AppsItems THEN "SubMenu(apps)"
    ELSE "Other"

\* The record of an event: what was processed, with which transport answer,
\* which call raised, and the menu state and handle it started from.
\* drawn: the handler reached its action_draw_basic call and finished it.
\* mid: the children of the menu box between the mount of lines 88-91 and
\* the check of lines 96-102 (the children before, when nothing was mounted).
Event(op, item, devices, index, fail) ==
    [op |-> op, item |-> item, devices |-> devices, index |-> index,
     fail |-> fail, from |-> MenuState(menu), prev |-> device,
     drawn |-> (fail = "none" /\ op \in {"mount", "select", "choose"}),
     mid |-> IF op = "select" /\ fail = "none"
             THEN mount_extras(menu, extras_of(item))
             ELSE menu]

-----------------------------------------------------------------------------
\* After __init__ and compose: no device, empty status, empty menu box, the
\* prompt in the content box.
Init ==
    /\ app = "starting"
    /\ device = None
    /\ status = <<>>
    /\ menu = <<>>
    /\ content = << Placeholder >>
    /\ dialog = <<>>
    /\ bubble = FALSE
    /\ last = [op |-> "init", item |-> "", devices |-> <<>>, index |-> 0,
               fail |-> "none", from |-> "Empty", prev |-> None,
               drawn |-> FALSE, mid |-> <<>>]

\* CommenderApp.on_mount: connect(), then action_draw_basic().
\* fail names the call that raises: "connect" (enumeration or handle
\* creation), "status" (reading the handle's attributes), or "none".
on_mount(devices, fail) ==
    /\ app = "starting"
    /\ fail \in {"none", "connect", "status"}
    /\ last' = Event("mount", "", devices, 0, fail)
    /\ UNCHANGED <<content, bubble>>
    /\ IF fail = "connect"
       THEN /\ app' = "crashed"
            /\ UNCHANGED <<device, dialog, status, menu>>
       ELSE /\ device' = connect_device(device, devices)
            /\ dialog' = connect_dialog(devices)
            /\ IF fail = "status"
               THEN /\ device' # None
                    /\ app' = "crashed"
                    /\ UNCHANGED <<status, menu>>
               ELSE /\ app' = "running"
                    /\ status' = draw_status(device')
                    /\ menu' = draw_menu(menu, device', "")

\* the handler calling connect() for every item, not for reconnect alone
on_list_view_selected_connects(item_name, devices, fail) ==
    /\ app = "running"
    /\ dialog = <<>>
    /\ ~bubble
    /\ item_name \in Selectable(menu)
    /\ item_name # "reconnect" => devices = <<>>
    /\ last' = Event("select", item_name, devices, 0, fail)
    /\ UNCHANGED bubble
    /\ CASE fail = "connect" ->
              /\ item_name = "reconnect"
              /\ app' = "crashed"
              /\ content' = <<>>
              /\ UNCHANGED <<device, dialog, status, menu>>
         [] fail = "data" ->
              /\ item_name \in {"apps-list", "info"}
              /\ app' = "crashed"
              /\ content' = <<>>
              /\ UNCHANGED <<device, dialog, status, menu>>
         [] OTHER ->
              /\ fail \in {"none", "status"}
              /\ content' = selected_content(item_name, device)
              /\ device' = connect_device(device, devices)
              /\ dialog' = connect_dialog(devices)
              /\ IF fail = "status"
                 THEN /\ device' # None
                      /\ app' = "crashed"
                      /\ UNCHANGED <<status, menu>>
                 ELSE /\ app' = "running"
                      /\ status' = draw_status(device')
                      /\ menu' = draw_menu(menu, device', extras_of(item_name))

\* the handler with the data retrieval wrapped in a try that swallows the
\* failure and goes on
on_list_view_selected_swallow(item_name, devices, fail) ==
    /\ app = "running"
    /\ dialog = <<>>
    /\ ~bubble
    /\ item_name \in Selectable(menu)
    /\ item_name # "reconnect" => devices = <<>>
    /\ last' = Event("select", item_name, devices, 0, fail)
    /\ UNCHANGED bubble
    /\ CASE fail = "connect" ->
              /\ item_name = "reconnect"
              /\ app' = "crashed"
              /\ content' = <<>>
              /\ UNCHANGED <<device, dialog, status, menu>>
         [] fail = "data" ->
              /\ item_name \in {"apps-list", "info"}
              /\ app' = "running"
              /\ content' = <<>>
              /\ UNCHANGED <<device, dialog>>
              /\ status' = draw_status(device)
              /\ menu' = draw_menu(menu, device, extras_of(item_name))
         [] OTHER ->
              /\ fail \in {"none", "status"}
              /\ content' = selected_content(item_name, device)
              /\ IF item_name = "reconnect"
                 THEN /\ device' = connect_device(device, devices)
                      /\ dialog' = connect_dialog(devices)
                 ELSE UNCHANGED <<device, dialog>>
              /\ IF fail = "status"
                 THEN /\ device' # None
                      /\ app' = "crashed"
                      /\ UNCHANGED <<status, menu>>
                 ELSE /\ app' = "running"
                      /\ status' = draw_status(device')
                      /\ menu' = draw_menu(menu, device', extras_of(item_name))

\* CommenderApp.on_list_view_selected for an item of a list of the menu box.
\* fail: "connect" (reconnect), "data" (apps-list, info), "status", "none".
on_list_view_selected(item_name, devices, fail) ==
    /\ app = "running"
    /\ dialog = <<>>
    /\ ~bubble
    /\ item_name \in Selectable(menu)
    /\ item_name # "reconnect" => devices = <<>>
    /\ last' = Event("select", item_name, devices, 0, fail)
    /\ UNCHANGED bubble
    /\ CASE fail = "connect" ->
              /\ item_name = "reconnect"
              /\ app' = "crashed"
              /\ content' = <<>>
              /\ UNCHANGED <<device, dialog, status, menu>>
         [] fail = "data" ->
              /\ item_name \in {"apps-list", "info"}
              /\ app' = "crashed"
              /\ content' = <<>>
              /\ UNCHANGED <<device, dialog, status, menu>>
         [] OTHER ->
              /\ fail \in {"none", "status"}
              /\ content' = selected_content(item_name, device)
              /\ IF item_name = "reconnect"
                 THEN /\ device' = connect_device(device, devices)
                      /\ dialog' = connect_dialog(devices)
                 ELSE UNCHANGED <<device, dialog>>
              /\ IF fail = "status"
                 THEN /\ device' # None
                      /\ app' = "crashed"
                      /\ UNCHANGED <<status, menu>>
                 ELSE /\ app' = "running"
                      /\ status' = draw_status(device')
                      /\ menu' = draw_menu(menu, device', extras_of(item_name))

\* action_selected with lines 28 and 29 exchanged: drawn before the handle
\* is stored
action_selected_drawfirst(index, fail) ==
    /\ app = "running"
    /\ dialog # <<>>
    /\ index \in 1..Len(dialog)
    /\ fail \in {"none", "status"}
    /\ last' = Event("choose", "", [i \in DOMAIN dialog |-> dialog[i].serial], index, fail)
    /\ device' = dialog[index]
    /\ UNCHANGED content
    /\ IF fail = "status"
       THEN /\ device # None
            /\ app' = "crashed"
            /\ UNCHANGED <<status, menu, dialog, bubble>>
       ELSE /\ app' = "running"
            /\ status' = draw_status(device)
            /\ menu' = draw_menu(menu, device, "")
            /\ dialog' = <<>>
            /\ bubble' \in BOOLEAN

\* action_selected that ignores the index of the list: always the first choice
action_selected_first(index, fail) ==
    /\ app = "running"
    /\ dialog # <<>>
    /\ index \in 1..Len(dialog)
    /\ fail \in {"none", "status"}
    /\ last' = Event("choose", "", [i \in DOMAIN dialog |-> dialog[i].serial], index, fail)
    /\ device' = dialog[1]
    /\ UNCHANGED content
    /\ IF fail = "status"
       THEN /\ app' = "crashed"
            /\ UNCHANGED <<status, menu, dialog, bubble>>
       ELSE /\ app' = "running"
            /\ status' = draw_status(device')
            /\ menu' = draw_menu(menu, device', "")
            /\ dialog' = <<>>
            /\ bubble' \in BOOLEAN

\* DeviceSelectionDialog.action_selected, reached from the dialog's list
\* (on_list_view_selected) or its Select button (on_button_pressed).  Reached
\* from the list, the ListView.Selected message goes on to the application's
\* handler (bubble); reached from the button, no list message exists.
action_selected(index, fail) ==
    /\ app = "running"
    /\ dialog # <<>>
    /\ index \in 1..Len(dialog)
    /\ fail \in {"none", "status"}
    /\ last' = Event("choose", "", [i \in DOMAIN dialog |-> dialog[i].serial], index, fail)
    /\ device' = dialog[index]
    /\ UNCHANGED content
    /\ IF fail = "status"
       THEN /\ app' = "crashed"
            /\ UNCHANGED <<status, menu, dialog, bubble>>
       ELSE /\ app' = "running"
            /\ status' = draw_status(device')
            /\ menu' = draw_menu(menu, device', "")
            /\ dialog' = <<>>
            /\ bubble' \in BOOLEAN

\* a cancel that closes the dialog and goes on without a device
cancel_pop ==
    /\ app = "running"
    /\ dialog # <<>>
    /\ dialog' = <<>>
    /\ last' = Event("cancel", "", <<>>, 0, "none")
    /\ UNCHANGED <<app, device, status, menu, content, bubble>>

\* DeviceSelectionDialog.on_button_pressed, case 'cancel': self.app.exit()
cancel ==
    /\ app = "running"
    /\ dialog # <<>>
    /\ app' = "exited"
    /\ last' = Event("cancel", "", <<>>, 0, "none")
    /\ UNCHANGED <<device, status, menu, content, dialog, bubble>>

\* CommenderApp.action_quit, bound to "q" on the application
action_quit ==
    /\ app = "running"
    /\ dialog = <<>>
    /\ ~bubble
    /\ app' = "exited"
    /\ last' = Event("quit", "", <<>>, 0, "none")
    /\ UNCHANGED <<device, status, menu, content, dialog, bubble>>

\* a handler that takes every list for a list of the menu box
from_menu_box_any(parent_id) == TRUE

\* on_list_view_selected, line 125: the event comes from a list mounted
\* directly in the menu box
from_menu_box(parent_id) == parent_id = "menu-box"

\* the id of the parent of the dialog's list: the Grid of line 19, which has
\* classes but no id
DialogGridId == "None"

\* CommenderApp.on_list_view_selected for the ListView.Selected message of the
\* dialog's list (lines 123-126).  Past the check of line 125 the handler
\* would empty the content box, find no name on the item (the Static of
\* line 21 has none), mount the default case's message and raise in
\* action_draw_basic on len(None).
on_list_view_selected_dialog ==
    /\ app = "running"
    /\ bubble
    /\ bubble' = FALSE
    /\ last' = Event("dialog-list", "", <<>>, 0, "none")
    /\ UNCHANGED <<device, status, menu, dialog>>
    /\ IF from_menu_box(DialogGridId)
       THEN /\ content' = << Unsupported >>
            /\ app' = "crashed"
       ELSE UNCHANGED <<content, app>>

FailPoints == {"none", "connect", "data", "status"}

Next ==
    \/ \E devices \in CandidateLists, fail \in FailPoints : on_mount(devices, fail)
    \/ \E item_name \in Identifiers, devices \in CandidateLists, fail \in FailPoints :
          on_list_view_selected(item_name, devices, fail)
    \/ \E index \in 1..MaxDevices, fail \in FailPoints : action_selected(index, fail)
    \/ cancel
    \/ action_quit
    \/ on_list_view_selected_dialog

Spec == Init /\ [][Next]_vars

TypeOK ==
    /\ app \in {"starting", "running", "exited", "crashed"}
    /\ device.serial \in 0..MaxDevices
    /\ Len(menu) <= 3
    /\ Len(content) <= 1

-----------------------------------------------------------------------------
\* Properties

NoNestedItems == {"restore", "jb", "manage", "utils", "info"}
StubItems == {"restore", "jb", "manage", "utils"}

Selected(e, item) == e.op = "select" /\ e.item = item

\* a selection of reconnect has been processed to its end: connect() has
\* returned and the dialog, if one was opened, has been answered
ReconnectProcessed ==
    /\ app = "running"
    /\ dialog = <<>>
    /\ \/ Selected(last, "reconnect")
       \/ last.op = "choose" /\ last.fail = "none"

\* C1: once a selection of reconnect is fully processed, the top-level menu
\* matches the outcome: the six-item TopMenu list when a handle was obtained,
\* the reconnect-only NoDevice list when none was found.
C1_ReconnectMenuMatchesOutcome ==
    ReconnectProcessed =>
        /\ device # None => MenuState(menu) = "TopMenu"
        /\ device = None => MenuState(menu) = "NoDevice"

\* C2: reconnect with zero candidate devices leaves the handle null and the
\* menu in NoDevice: one list, holding only reconnect, and no nested list.
C2_ReconnectZeroStaysNoDevice ==
    (Selected(last, "reconnect") /\ last.devices = <<>> /\ last.fail = "none") =>
        /\ device.serial = 0
        /\ Len(menu) = 1
        /\ menu[1].items = <<"reconnect">>

C2_Witness ==
    /\ Selected(last, "reconnect") /\ last.devices = <<>> /\ last.fail = "none"
    /\ last.from = "NoDevice"
    /\ app = "running"
    /\ device.serial = 0
    /\ Len(menu) = 1

\* C3: after apps is selected there is exactly one nested list under the
\* top-level list and it holds exactly apps-list, however often apps was
\* selected before.
C3_AppsOneNestedList ==
    (Selected(last, "apps") /\ app = "running") =>
        /\ Len(menu) = 2
        /\ menu[1].items = TopMenuItems
        /\ menu[2].items = <<"apps-list">>

C3_Witness ==
    /\ Selected(last, "apps") /\ app = "running"
    /\ last.from = "SubMenu(apps)"
    /\ Len(menu) = 2
    /\ menu[2].items = <<"apps-list">>

IsTopLevel(panel) == panel.items \in {TopMenuItems, NoDeviceItems}

\* C4: after every event the menu box holds at most two panels: at most one
\* top-level list and at most one nested list.
C4_AtMostTwoPanels ==
    /\ Len(menu) <= 2
    /\ Cardinality({ i \in DOMAIN menu : IsTopLevel(menu[i]) }) <= 1
    /\ Cardinality({ i \in DOMAIN menu : ~IsTopLevel(menu[i]) }) <= 1

C4_Witness ==
    /\ Len(menu) = 2
    /\ IsTopLevel(menu[1]) /\ ~IsTopLevel(menu[2])
    /\ Selected(last, "apps-list")
    /\ last.from = "SubMenu(apps)"

\* C5: apps-list selected in SubMenu(apps) leaves the menu as it is (the same
\* top-level list and the same single nested list) and changes only the
\* content pane, which becomes the JSON view of the installed applications.
C5_AppsListChangesOnlyContent ==
    [][ ( /\ Selected(last', "apps-list")
          /\ app' = "running"
          /\ MenuState(menu) = "SubMenu(apps)" ) =>
            /\ menu' = menu
            /\ MenuState(menu') = "SubMenu(apps)"
            /\ device' = device
            /\ status' = status
            /\ dialog' = dialog
            /\ content' = << [widget |-> "TextArea", text |-> "get_apps",
                              serial |-> device.serial] >> ]_vars

C5_Witness ==
    /\ Selected(last, "apps-list") /\ app = "running"
    /\ last.from = "SubMenu(apps)"
    /\ MenuState(menu) = "SubMenu(apps)"
    /\ Len(content) = 1
    /\ content[1].widget = "TextArea" /\ content[1].text = "get_apps"

\* C6 as stated: selecting info never mounts and never removes a nested list,
\* whatever the prior state: the mounted panels are the same before and after.
C6_InfoKeepsPanels ==
    [][ Selected(last', "info") => menu' = menu ]_vars

\* C6 amended: selecting info never mounts a nested list; from TopMenu the
\* mounted panels are the same before and after, and from SubMenu(apps) the
\* nested list is removed, leaving the top-level list alone.
C6_InfoNeverMounts ==
    [][ (Selected(last', "info") /\ app' = "running") =>
            /\ MenuState(menu) = "TopMenu" => menu' = menu
            /\ MenuState(menu) = "SubMenu(apps)" => menu' = << menu[1] >>
            /\ \A i \in DOMAIN menu' : \E j \in DOMAIN menu : menu'[i] = menu[j] ]_vars

C6_Witness ==
    /\ Selected(last, "info") /\ app = "running"
    /\ last.from = "SubMenu(apps)"
    /\ MenuState(menu) = "TopMenu"

\* C7: from SubMenu(apps), selecting a top-level item without a nested list of
\* its own (restore, jb, manage, utils, info) removes the nested panel: only
\* the top-level list is mounted afterwards.
C7_LeavingRemovesNested ==
    [][ ( /\ last'.op = "select" /\ last'.item \in NoNestedItems
          /\ app' = "running"
          /\ MenuState(menu) = "SubMenu(apps)" ) =>
            /\ menu' = << menu[1] >>
            /\ MenuState(menu') = "TopMenu" ]_vars

C7_Witness ==
    /\ last.op = "select" /\ last.item \in StubItems
    /\ app = "running"
    /\ last.from = "SubMenu(apps)"
    /\ Len(menu) = 1

\* C8: from TopMenu, selecting restore, jb, manage or utils (the default
\* branch) sets the content pane to the unsupported message and leaves the
\* menu unchanged: TopMenu, six items, no nested list.
C8_StubShowsUnsupported ==
    [][ ( /\ last'.op = "select" /\ last'.item \in StubItems
          /\ app' = "running"
          /\ MenuState(menu) = "TopMenu" ) =>
            /\ content' = << [widget |-> "Static", text |-> "Not supported yet :)",
                              serial |-> 0] >>
            /\ menu' = menu
            /\ Len(menu') = 1
            /\ menu'[1].items = <<"restore", "jb", "apps", "manage", "utils", "info">> ]_vars

C8_Witness ==
    /\ last.op = "select" /\ last.item \in StubItems
    /\ app = "running"
    /\ last.from = "TopMenu"
    /\ MenuState(menu) = "TopMenu"
    /\ Len(content) = 1 /\ content[1].text = "Not supported yet :)"

\* the status line as the three lines built from the attributes of handle h
ShowsDevice(text, h) ==
    /\ Len(text) = 3
    /\ text[1].label = "Device"
    /\ text[1].parts = << [key |-> "DeviceName", serial |-> h.serial],
                          [key |-> "ProductType", serial |-> h.serial] >>
    /\ text[2].label = "OS version"
    /\ text[2].parts = << [key |-> "ProductVersion", serial |-> h.serial],
                          [key |-> "BuildVersion", serial |-> h.serial] >>
    /\ text[3].label = "Serial number"
    /\ text[3].parts = << [key |-> "SerialNumber", serial |-> h.serial] >>

ShowsNone(text) ==
    /\ Len(text) = 1
    /\ text[1].label = "Device: None"

\* C9: after every render (startup, every processed selection, every dialog
\* choice) the status line reflects the current handle: the placeholder
\* exactly when the handle is null, otherwise the three lines of the current
\* handle, never those of a handle a reconnect replaced.
C9_StatusReflectsHandle ==
    app = "running" =>
        /\ device.serial = 0 <=> ShowsNone(status)
        /\ device.serial # 0 => ShowsDevice(status, device)

C9_Witness ==
    /\ app = "running"
    /\ last.op = "choose"
    /\ last.prev.serial # 0
    /\ device.serial # 0
    /\ device # last.prev
    /\ ShowsDevice(status, device)

\* connect() ran to its end in the last event
Connected == last.fail # "connect" /\ (last.op = "mount" \/ Selected(last, "reconnect"))

\* C10: connect() with zero candidates sets the handle to null, also when a
\* handle was held before; with exactly one candidate it stores a handle to
\* that candidate; in neither case is the dialog opened.
C10_ConnectZeroOrOne ==
    Connected =>
        /\ Len(last.devices) = 0 => device.serial = 0 /\ dialog = <<>>
        /\ Len(last.devices) = 1 =>
              device.serial = last.devices[1] /\ dialog = <<>>

C10_Witness ==
    /\ Connected
    /\ last.prev.serial # 0
    /\ Len(last.devices) = 0
    /\ device.serial = 0
    /\ dialog = <<>>

\* C11: when connect() found several candidates and the operator picks
\* candidate k in the dialog, the handle becomes candidate k's handle and the
\* menu is rendered as TopMenu: the six items, no nested list.
C11_ChoiceStoresAndDrawsTopMenu ==
    (last.op = "choose" /\ last.fail = "none") =>
        /\ device.serial = last.devices[last.index]
        /\ dialog = <<>>
        /\ Len(menu) = 1
        /\ menu[1].items = <<"restore", "jb", "apps", "manage", "utils", "info">>

C11_Witness ==
    /\ last.op = "choose" /\ last.fail = "none"
    /\ app = "running"
    /\ Len(last.devices) = 2
    /\ last.index = 2
    /\ device.serial = last.devices[2]
    /\ MenuState(menu) = "TopMenu"

\* C12: a cancel in the open dialog terminates the application: the handle is
\* not changed by it and no event is processed afterwards.
C12_CancelTerminates ==
    [][ /\ last'.op = "cancel" => (app' = "exited" /\ device' = device)
        /\ app = "exited" => (app' = "exited" /\ last' = last) ]_vars

C12_Witness ==
    /\ last.op = "cancel"
    /\ app = "exited"
    /\ dialog # <<>>
    /\ device = last.prev

\* C13: after every fully processed selection of a menu item, reconnect
\* included, the content pane holds exactly one rendering: the prompt, the
\* unsupported message or a JSON view; it is never left empty.
C13_ContentNeverEmpty ==
    (last.op = "select" /\ app = "running") =>
        /\ Len(content) = 1
        /\ \/ content[1].widget = "TextArea"
           \/ content[1].text \in {"Please select an option.", "Not supported yet :)"}

\* C14: the handle is changed only by the connect flow: connect() at startup
\* and on reconnect, and the choice in the dialog it opens; selecting any
\* other identifier leaves the handle unchanged.
C14_HandleChangedOnlyByConnect ==
    [][ /\ (last'.op = "select" /\ last'.item # "reconnect") => device' = device
        /\ device' # device =>
              \/ last'.op \in {"mount", "choose"}
              \/ Selected(last', "reconnect") ]_vars

C14_Witness ==
    /\ last.op = "select"
    /\ last.item \in {"apps", "apps-list", "info"}
    /\ app = "running"
    /\ last.prev.serial # 0
    /\ device = last.prev

NestedLists(children) == { i \in DOMAIN children : ~IsTopLevel(children[i]) }

Pending == app = "running" /\ dialog # <<>>

\* C16 as stated: between the opening of the dialog and the operator's select
\* or cancel no render of the status line or menu takes place, at startup and
\* on reconnect alike: NoDevice is not rendered while the choice is pending.
C16_ChoiceIsBlocking ==
    Pending =>
        /\ ~last.drawn
        /\ last.op = "mount" => (~ShowsNone(status) /\ MenuState(menu) # "NoDevice")

\* C16 amended: the dialog is opened without waiting for the operator.  The
\* handler that opened it (startup or reconnect) still renders status line
\* and menu once, from the handle as it was before: the NoDevice placeholder
\* and list at startup, the previous handle's data on reconnect.  While the
\* choice is pending the handle keeps that value and the only events
\* processed are the operator's select and cancel.
C16_ChoiceIsModalNotBlocking ==
    [][ /\ Pending' =>
              /\ last'.op = "mount" \/ Selected(last', "reconnect")
              /\ last'.drawn
              /\ device' = last'.prev
              /\ IF last'.prev.serial = 0
                 THEN ShowsNone(status')
                 ELSE ShowsDevice(status', last'.prev)
              /\ MenuState(menu') = "NoDevice"
        /\ Pending => last'.op \in {"choose", "cancel"} ]_vars

C16_Witness ==
    /\ Pending
    /\ Selected(last, "reconnect")
    /\ last.prev.serial # 0
    /\ device = last.prev
    /\ ShowsDevice(status, last.prev)

\* C17: a transport failure during connect() (startup or reconnect) or during
\* the data retrieval of apps-list or info is fatal: the application is
\* terminated, nothing is processed afterwards (no retry) and no JSON view of
\* the failed operation is mounted in the content pane.
C17_TransportFailureIsFatal ==
    [][ /\ last'.fail \in {"connect", "data"} =>
              /\ app' = "crashed"
              /\ \A i \in DOMAIN content' : content'[i].widget # "TextArea"
        /\ app = "crashed" => (app' = "crashed" /\ last' = last) ]_vars

C17_Witness ==
    /\ Selected(last, "apps-list")
    /\ last.fail = "data"
    /\ app = "crashed"
    /\ content = <<>>

\* C18: an item that reads the handle (info, apps-list) is selectable only
\* with a non-null handle: whenever the handle is null the mounted panels hold
\* no item but reconnect, and info and apps-list are never processed with a
\* null handle.
C18_NullHandleOnlyReconnect ==
    /\ device.serial = 0 => Selectable(menu) \subseteq {"reconnect"}
    /\ (last.op = "select" /\ last.item \in {"info", "apps-list"}) => last.prev.serial # 0

C18_Witness ==
    /\ app = "running"
    /\ device.serial = 0
    /\ last.prev.serial # 0
    /\ Selected(last, "reconnect")
    /\ Selectable(menu) = {"reconnect"}

\* C19: a list-selection event of a list that is not mounted directly in the
\* menu box (the dialog's list) is ignored by the navigator's handler: the
\* content pane and the menu panels stay as they are and no identifier is
\* dispatched on.
C19_DialogListEventIgnored ==
    [][ last'.op = "dialog-list" =>
            /\ content' = content
            /\ menu' = menu
            /\ status' = status
            /\ device' = device
            /\ app' = "running" ]_vars

C19_Witness ==
    /\ last.op = "dialog-list"
    /\ app = "running"
    /\ ~bubble
    /\ device.serial # 0
    /\ MenuState(menu) = "TopMenu"

====
